---- MODULE Spec2Model ----
(***************************************************************************)
(* Model of src/src/octree/morton.rs: the 64-bit Morton code, the          *)
(* MortonRegion address (code + level) with enter/exit/get/next, the       *)
(* passthrough hash, and the three stack-based region iterators over a     *)
(* MortonMap.                                                              *)
(*                                                                         *)
(* A u64 is the set of its one-bits, a subset of the bit positions 0..63   *)
(* (0 = least significant); the bitwise operators, shifts and masks of the *)
(* source are computed on it bit by bit.  usize arithmetic that can leave its range   *)
(* (3 * (NUM_BITS_PER_DIM - level - 1) at level 21) has the two outcomes   *)
(* the build can produce: a panic when overflow checks are compiled in,    *)
(* a wrapped value and a masked shift amount when they are not.            *)
(***************************************************************************)
EXTENDS Integers, Naturals, Sequences, FiniteSets, TLC

VARIABLES
    overflow_checks, \* the build: TRUE = arithmetic overflow panics, FALSE = it wraps
    panicked,        \* a panic has unwound the running operation
    \* ---- a bare Morton<u64> under get_level / set_level / reset_level
    code0,           \* the code the run started from
    code,            \* the current code
    mop,             \* the last operation applied to code
    \* ---- a point taken to its Morton<u64> and back
    point,           \* the point: [x, y, z], each a numerator over 2^FracBits
    encoded,         \* Morton::from(point)
    centre,          \* encoded.into(): a point again
    pstep,           \* how far the round trip has come: "point", "encoded", "decoded"
    \* ---- a MortonRegion<u64> under enter / exit / next
    region,          \* the current address
    rop,             \* the last operation applied to region
    \* ---- a MortonMap and one iterator over it
    map,             \* the map: a function from its keys (regions) to payloads
    kind,            \* which iterator was constructed: "none", "bounded", "further", "leaves"
    root,            \* the region the iterator was constructed with
    nodes,           \* the iterator's stack (a sequence, top = last element)
    limit,           \* MortonRegionIterator.limit
    further,         \* the predicate, as the set of regions it answers true for
    result,          \* what the last pull returned
    yielded,         \* history: the items yielded so far, in order
    looked,          \* history: the regions looked up in the map so far
    pushed,          \* history: the regions pushed onto the stack so far
    peak             \* history: the greatest stack length reached so far

vars == << overflow_checks, panicked, code0, code, mop,
           point, encoded, centre, pstep, region, rop,
           map, kind, root, nodes, limit, further, result, yielded, looked,
           pushed, peak >>

mortonVars == << code0, code, mop >>
pointVars == << point, encoded, centre, pstep >>
regionVars == << region, rop >>
iterVars == << map, kind, root, nodes, limit, further, result, yielded, looked,
               pushed, peak >>

-----------------------------------------------------------------------------
\* The element of a singleton.  A value drawn from a singleton is computed once,
\* however often what follows refers to it.
Only(S) == CHOOSE x \in S : TRUE

-----------------------------------------------------------------------------
(* u64 words *)

WORD_BITS == 64
BitIdx == 0 .. (WORD_BITS - 1)

Bit(w, i) == IF i \in w THEN 1 ELSE 0

\* `val as u64` for a small value (an octant)
U64(v) == {i \in 0 .. 2 : (v \div (IF i = 0 THEN 1 ELSE IF i = 1 THEN 2 ELSE 4)) % 2 = 1}

\* `(w & 0x7) as usize`
Low3(w) == Bit(w, 0) + 2 * Bit(w, 1) + 4 * Bit(w, 2)

BitAnd(a, b) == a \cap b
BitOr(a, b) == a \cup b
Not(a) == BitIdx \ a
\* logical shifts by an amount already in 0..63
Shr(a, n) == {i - n : i \in {k \in a : k >= n}}
Shl(a, n) == {i + n : i \in {k \in a : k + n < WORD_BITS}}

\* A usize shift amount computed as the integer n: outside 0..63 the shift (or
\* the subtraction that produced a negative n) overflows; the wrapped amount is
\* n modulo 2^64 masked to six bits, which is n modulo 64.
ShiftOverflows(n) == n < 0 \/ n >= WORD_BITS
ShiftMasked(n) == ((n % WORD_BITS) + WORD_BITS) % WORD_BITS

NUM_BITS_PER_DIM == WORD_BITS \div 3
\* 0x7000_0000_0000_0000
MORTON_HIGHEST_BITS == {60, 61, 62}
\* 0x8000_0000_0000_0000
MORTON_UNUSED_BIT == {63}
Zero == {}

-----------------------------------------------------------------------------
(* impl Morton<u64>.  Each operator returns [panic, val]: panic is TRUE when *)
(* the build checks overflow and the computation overflowed.                *)

\* 3 * (NUM_BITS_PER_DIM - level - 1), as the integer the usize expression denotes
LevelShift(level) == 3 * (NUM_BITS_PER_DIM - level - 1)

get_significant_bits(m, level) ==
    [panic |-> overflow_checks /\ ShiftOverflows(LevelShift(level)),
     val |-> Shr(m, ShiftMasked(LevelShift(level)))]

get_level(m, level) ==
    LET s == get_significant_bits(m, level)
    IN  [panic |-> s.panic, val |-> Low3(s.val)]

\* A faulty variant: the new octant is or-ed in, the old one not cleared
set_level_NoClear(m, level, v) ==
    [panic |-> overflow_checks
                 /\ (ShiftOverflows(3 * level) \/ ShiftOverflows(LevelShift(level))),
     val |-> BitOr(m, Shl(U64(v), ShiftMasked(LevelShift(level))))]

set_level(m, level, v) ==
    [panic |-> overflow_checks
                 /\ (ShiftOverflows(3 * level) \/ ShiftOverflows(LevelShift(level))),
     val |-> BitOr(BitAnd(m, Not(Shr(MORTON_HIGHEST_BITS, ShiftMasked(3 * level)))),
                   Shl(U64(v), ShiftMasked(LevelShift(level))))]

\* A faulty variant: the triplet after the one asked for is cleared
reset_level_NextTriplet(m, level) ==
    [panic |-> overflow_checks /\ ShiftOverflows(3 * level),
     val |-> BitAnd(m, Not(Shr(MORTON_HIGHEST_BITS, ShiftMasked(3 * (level + 1)))))]

reset_level(m, level) ==
    [panic |-> overflow_checks /\ ShiftOverflows(3 * level),
     val |-> BitAnd(m, Not(Shr(MORTON_HIGHEST_BITS, ShiftMasked(3 * level))))]

-----------------------------------------------------------------------------
(* impl MortonRegion<u64>.  A region is [morton, level].                    *)

Rgn(m, l) == [morton |-> m, level |-> l]

\* impl Default for MortonRegion
default == Rgn(Zero, 0)

significant_bits(r) == get_significant_bits(r.morton, r.level)

enter(r, section) ==
    LET s == set_level(r.morton, r.level, section)
    IN  [panic |-> s.panic, val |-> Rgn(s.val, r.level + 1)]

\* A faulty variant: the octant left behind is not cleared
exit_NoReset(r) ==
    LET l == r.level - 1
        g == get_level(r.morton, l)
    IN  [panic |-> (overflow_checks /\ r.level = 0) \/ g.panic,
         val |-> Rgn(r.morton, l),
         old |-> g.val]

\* exit(&mut self): [panic, val (the region afterwards), old (the octant returned)].
\* Its precondition is level > 0 and every caller here keeps it (next tests it);
\* at level 0 the decrement overflows.
exit(r) ==
    LET l == r.level - 1
        g == get_level(r.morton, l)
        c == reset_level(r.morton, l)
    IN  [panic |-> (overflow_checks /\ r.level = 0) \/ g.panic \/ c.panic,
         val |-> Rgn(c.val, l),
         old |-> g.val]

get(r) == get_level(r.morton, r.level - 1)

\* A faulty variant: past the last sibling, the parent's successor is tried
RECURSIVE next_Climbing(_)
next_Climbing(r) ==
    IF r.level = 0
    THEN [panic |-> FALSE, some |-> FALSE, val |-> r]
    ELSE LET x == exit(r)
         IN  IF x.old = 7
             THEN next_Climbing(x.val)
             ELSE LET e == enter(x.val, x.old + 1)
                  IN  [panic |-> x.panic \/ e.panic, some |-> TRUE, val |-> e.val]

\* next(self) -> Option<Self>: [panic, some, val]
next(r) ==
    IF r.level = 0
    THEN [panic |-> FALSE, some |-> FALSE, val |-> r]
    ELSE Only({IF x.old = 7
               THEN [panic |-> x.panic, some |-> FALSE, val |-> r]
               ELSE Only({[panic |-> x.panic \/ e.panic, some |-> TRUE, val |-> e.val] :
                            e \in {enter(x.val, x.old + 1)}}) :
                 x \in {exit(r)}})

\* impl Hash for MortonRegion<u64>: the u64 written to the (passthrough) hasher
hash(r) == get_significant_bits(BitOr(r.morton, MORTON_UNUSED_BIT), r.level)

-----------------------------------------------------------------------------
(* Reading a code as the data model describes it: triplet i (0 = coarsest)  *)
(* is bits 62-3i .. 60-3i, bit 63 is reserved.                              *)

TripletIdx == 0 .. (NUM_BITS_PER_DIM - 1)
Octants == 0 .. 7
Levels == 0 .. NUM_BITS_PER_DIM

Triplet(w, i) == Bit(w, 60 - 3 * i) + 2 * Bit(w, 61 - 3 * i) + 4 * Bit(w, 62 - 3 * i)

\* the bits of triplets 0 .. n-1
FirstTriplets(w, n) == {k \in w : k >= 63 - 3 * n /\ k <= 62}

\* the two codes have the same triplets 0 .. n-1
AgreeOnFirst(a, b, n) == FirstTriplets(a, n) = FirstTriplets(b, n)

\* the two codes have the same bits outside triplet i
SameOutsideTriplet(a, b, i) ==
    a \ {60 - 3 * i, 61 - 3 * i, 62 - 3 * i} = b \ {60 - 3 * i, 61 - 3 * i, 62 - 3 * i}

-----------------------------------------------------------------------------
(* The idle values of the variables a specification does not use.           *)

NoMortonOp == [op |-> "init", level |-> 0, val |-> 0, pre |-> Zero, ret |-> 0, bits |-> Zero]
NoRegionOp == [op |-> "init", arg |-> 0, pre |-> default, ret |-> 0, some |-> FALSE]
NoResult == [state |-> "fresh", region |-> default, item |-> << >>]

MortonIdle == code0 = Zero /\ code = Zero /\ mop = NoMortonOp
NoPoint == [x |-> 0, y |-> 0, z |-> 0]
PointIdle == point = NoPoint /\ encoded = Zero /\ centre = NoPoint /\ pstep = "none"
RegionIdle == region = default /\ rop = NoRegionOp
IterIdle ==
    /\ map = << >> /\ kind = "none" /\ root = default /\ nodes = << >>
    /\ limit = 0 /\ further = {} /\ result = NoResult /\ yielded = << >>
    /\ looked = {} /\ pushed = {} /\ peak = 0

-----------------------------------------------------------------------------
(* SpecMorton: set_level / reset_level / get_level / get_significant_bits   *)
(* applied to a Morton<u64>.  These are functions of the code alone, so     *)
(* each run takes one code, applies one write to it, and reads the result   *)
(* (or reads the code it started from).                                     *)

AllOnes == BitIdx
\* triplets 0..9 are 7, the rest 0
HalfOnes == 33 .. 62
\* 0b0101...01: triplets alternate 5, 2
Stripes == {i \in BitIdx : i % 2 = 0}
SeedCodes == {Zero, AllOnes, HalfOnes, Stripes}

InitMorton ==
    /\ overflow_checks \in BOOLEAN
    /\ panicked = FALSE
    /\ code0 \in SeedCodes
    /\ code = code0
    /\ mop = [NoMortonOp EXCEPT !.pre = code0]
    /\ PointIdle
    /\ RegionIdle
    /\ IterIdle

SetLevel(i, o) ==
    LET s == set_level(code, i, o)
    IN  /\ ~panicked
        /\ mop.op = "init"
        /\ panicked' = s.panic
        /\ code' = IF s.panic THEN code ELSE s.val
        /\ mop' = [op |-> "set_level", level |-> i, val |-> o, pre |-> code,
                   ret |-> 0, bits |-> Zero]
        /\ UNCHANGED << overflow_checks, code0, pointVars, regionVars, iterVars >>

ResetLevel(i) ==
    LET s == reset_level(code, i)
    IN  /\ ~panicked
        /\ mop.op = "init"
        /\ panicked' = s.panic
        /\ code' = IF s.panic THEN code ELSE s.val
        /\ mop' = [op |-> "reset_level", level |-> i, val |-> 0, pre |-> code,
                   ret |-> 0, bits |-> Zero]
        /\ UNCHANGED << overflow_checks, code0, pointVars, regionVars, iterVars >>

\* A read leaves the code as it is, so a read after a read reaches nothing new:
\* each read follows the start or a write.
IsWrite(o) == o.op \in {"init", "set_level", "reset_level"}

GetLevel(i) ==
    LET g == get_level(code, i)
    IN  /\ ~panicked
        /\ IsWrite(mop)
        /\ panicked' = g.panic
        /\ mop' = [op |-> "get_level", level |-> i, val |-> 0, pre |-> code,
                   ret |-> IF g.panic THEN 0 ELSE g.val, bits |-> Zero]
        /\ UNCHANGED << overflow_checks, code0, code, pointVars, regionVars, iterVars >>

GetSignificantBits(l) ==
    LET g == get_significant_bits(code, l)
    IN  /\ ~panicked
        /\ IsWrite(mop)
        /\ panicked' = g.panic
        /\ mop' = [op |-> "get_significant_bits", level |-> l, val |-> 0, pre |-> code,
                   ret |-> 0, bits |-> IF g.panic THEN Zero ELSE g.val]
        /\ UNCHANGED << overflow_checks, code0, code, pointVars, regionVars, iterVars >>

NextMorton ==
    \/ \E i \in TripletIdx, o \in Octants : SetLevel(i, o)
    \/ \E i \in TripletIdx : ResetLevel(i)
    \/ \E i \in {mop.level} : GetLevel(i)
    \/ \E l \in Levels : GetSignificantBits(l)

SpecMorton == InitMorton /\ [][NextMorton]_vars

-----------------------------------------------------------------------------
(* SpecPoint: a point with coordinates in [0,1) taken to its Morton<u64>  *)
(* (From<Vector3<S>>) and back (Into<Vector3<S>>).  A coordinate is the     *)
(* numerator n of n / 2^FracBits.  Scaling by a power of two is exact in    *)
(* binary floating point, and an index below 2^21 plus 0.5 has at most 22    *)
(* significant bits, so the floats of the code are these fractions.         *)

FracBits == 24
\* the fraction bits below the finest cell: a cell is 2^CellBits numerators wide
CellBits == FracBits - NUM_BITS_PER_DIM
One == 2 ^ FracBits

\* the coordinates tried: the ends of [0,1), the ends and the middle of a cell,
\* one half, and alternating bits
Coords == {0, 1, 2 ^ (CellBits - 1), 2 ^ CellBits - 1, 2 ^ CellBits,
           One \div 2, (One - 1) \div 3, One - 2 ^ CellBits, One - 1}

\* the one bits of the 21-bit integer n, and the integer of a set of bits
BitsOf(n) == {i \in 0 .. (NUM_BITS_PER_DIM - 1) : (n \div 2 ^ i) % 2 = 1}
RECURSIVE IntOf(_)
IntOf(b) == IF b = {} THEN 0
            ELSE LET i == CHOOSE j \in b : TRUE IN 2 ^ i + IntOf(b \ {i})

\* (x * 2^NUM_BITS_PER_DIM).to_u64().unwrap(): the scaled coordinate, truncated
to_u64(n) == n \div 2 ^ CellBits

\* bitwise::morton::encode_3d and decode_3d: bit i of x, y, z goes to bits 3i,
\* 3i + 1, 3i + 2 of the code, and back
encode_3d(x, y, z) ==
    {3 * i : i \in BitsOf(x)} \cup {3 * i + 1 : i \in BitsOf(y)}
        \cup {3 * i + 2 : i \in BitsOf(z)}
decode_3d(v) ==
    [x |-> IntOf({i \in 0 .. (NUM_BITS_PER_DIM - 1) : 3 * i \in v}),
     y |-> IntOf({i \in 0 .. (NUM_BITS_PER_DIM - 1) : 3 * i + 1 \in v}),
     z |-> IntOf({i \in 0 .. (NUM_BITS_PER_DIM - 1) : 3 * i + 2 \in v})]

\* impl From<Vector3<S>> for Morton<u64>
from(p) == BitAnd(encode_3d(to_u64(p.x), to_u64(p.y), to_u64(p.z)), Not(MORTON_UNUSED_BIT))

\* A faulty variant: the lower corner of the cell, the half cell not added
CellPoint_LowerCorner(i) == i * 2 ^ CellBits

\* (S::from_u64(i) + 0.5) * 2^-NUM_BITS_PER_DIM, as a numerator over 2^FracBits
CellPoint(i) == (2 * i + 1) * 2 ^ (CellBits - 1)

\* impl Into<Vector3<S>> for Morton<u64>
into(m) ==
    [x |-> CellPoint(decode_3d(m).x),
     y |-> CellPoint(decode_3d(m).y),
     z |-> CellPoint(decode_3d(m).z)]

InitPoint ==
    /\ overflow_checks \in BOOLEAN
    /\ panicked = FALSE
    /\ point \in [x : Coords, y : Coords, z : Coords]
    /\ encoded = Zero
    /\ centre = NoPoint
    /\ pstep = "point"
    /\ MortonIdle
    /\ RegionIdle
    /\ IterIdle

\* let m: Morton<u64> = point.into()
Encode ==
    /\ pstep = "point"
    /\ encoded' = from(point)
    /\ pstep' = "encoded"
    /\ UNCHANGED << overflow_checks, panicked, point, centre, mortonVars, regionVars,
                    iterVars >>

\* let back: Vector3<S> = m.into()
Decode ==
    /\ pstep = "encoded"
    /\ centre' = into(encoded)
    /\ pstep' = "decoded"
    /\ UNCHANGED << overflow_checks, panicked, point, encoded, mortonVars, regionVars,
                    iterVars >>

NextPoint == Encode \/ Decode

SpecPoint == InitPoint /\ [][NextPoint]_vars

-----------------------------------------------------------------------------
(* SpecRegion: one MortonRegion, from the default root, under enter / exit  *)
(* / next, with its hash taken along the way.                               *)

\* The first MaxWide octants of an address are free; below them enter is called
\* only under a path of 7s (the last octant stays free), which keeps the
\* reachable addresses few while the walk still reaches level 21.
MaxWide == 1

PathOf(r) == [i \in 1 .. r.level |-> Triplet(r.morton, i - 1)]

DeepPathIsSevens(r) == \A i \in 1 .. r.level : i > MaxWide => PathOf(r)[i] = 7

InitRegion ==
    /\ overflow_checks \in BOOLEAN
    /\ panicked = FALSE
    /\ region = default
    /\ rop = NoRegionOp
    /\ MortonIdle
    /\ PointIdle
    /\ IterIdle

Enter(o) ==
    LET e == enter(region, o)
    IN  /\ ~panicked
        /\ region.level < NUM_BITS_PER_DIM
        /\ DeepPathIsSevens(region)
        /\ panicked' = e.panic
        /\ region' = IF e.panic THEN region ELSE e.val
        /\ rop' = [op |-> "enter", arg |-> o, pre |-> region, ret |-> 0,
                   some |-> FALSE]
        /\ UNCHANGED << overflow_checks, mortonVars, pointVars, iterVars >>

Exit ==
    LET x == exit(region)
    IN  /\ ~panicked
        /\ region.level > 0
        /\ panicked' = x.panic
        /\ region' = IF x.panic THEN region ELSE x.val
        /\ rop' = [op |-> "exit", arg |-> 0, pre |-> region,
                   ret |-> IF x.panic THEN 0 ELSE x.old,
                   some |-> FALSE]
        /\ UNCHANGED << overflow_checks, mortonVars, pointVars, iterVars >>

\* region = region.next(), the address staying where it is on no-successor
RegionNext ==
    LET n == next(region)
    IN  /\ ~panicked
        /\ panicked' = n.panic
        /\ region' = IF ~n.panic /\ n.some THEN n.val ELSE region
        /\ rop' = [op |-> "next", arg |-> 0, pre |-> region, ret |-> 0,
                   some |-> ~n.panic /\ n.some]
        /\ UNCHANGED << overflow_checks, mortonVars, pointVars, iterVars >>

\* region.hash(&mut PassthroughHash::default()): the value the hasher finishes with
RegionHash ==
    LET h == hash(region)
    IN  /\ ~panicked
        /\ rop.op # "hash"
        /\ panicked' = h.panic
        /\ rop' = [op |-> "hash", arg |-> 0, pre |-> region,
                   ret |-> IF h.panic THEN Zero ELSE h.val,
                   some |-> FALSE]
        /\ UNCHANGED << overflow_checks, region, mortonVars, pointVars, iterVars >>

NextRegion ==
    \/ \E o \in Octants : Enter(o)
    \/ Exit
    \/ RegionNext
    \/ RegionHash

SpecRegion == InitRegion /\ [][NextRegion]_vars

-----------------------------------------------------------------------------
(* MortonMap<T> and the three iterators.                                    *)

\* A faulty variant: keys compared by their code alone, the level ignored
MapGet_IgnoresLevel(m, r) ==
    LET h == hash(r)
        same == {k \in DOMAIN m : k.morton = r.morton}
    IN  [panic |-> h.panic,
         some |-> ~h.panic /\ same # {},
         item |-> IF ~h.panic /\ same # {} THEN m[CHOOSE k \in same : TRUE] ELSE << >>]

\* HashMap::get(&region): the key is hashed (which can panic), then compared with
\* the derived PartialEq, code and level bit for bit.  [panic, some, item]
MapGet(m, r) ==
    LET h == hash(r)
    IN  [panic |-> h.panic,
         some |-> ~h.panic /\ r \in DOMAIN m,
         item |-> IF ~h.panic /\ r \in DOMAIN m THEN m[r] ELSE << >>]

\* A faulty variant: the predicate's answer inverted
Further_Inverted(f, r) == r \notin f

\* A faulty variant: the predicate always answers true
Further_Always(f, r) == TRUE

\* (self.further)(region)
Further(f, r) == r \in f

Max(a, b) == IF a >= b THEN a ELSE b
Top(q) == q[Len(q)]
Pop(q) == SubSeq(q, 1, Len(q) - 1)

\* The state one call of an iterator's next works on: the stack, the three
\* histories, and how the call ended ("running", "some", "none", "panic").
Finish(st, how, r, item) == [st EXCEPT !.state = how, !.region = r, !.item = item]

\* self.nodes.push(r)
Push(st, r) ==
    [st EXCEPT !.nodes = Append(st.nodes, r),
               !.pushed = st.pushed \cup {r},
               !.peak = Max(st.peak, Len(st.nodes) + 1)]

\* A faulty variant: the popped region's successor is not pushed back
PopAndAdvance_NoSibling(st) == [st EXCEPT !.nodes = Pop(st.nodes)]

\* A faulty variant: past the last sibling, the head pushes the successor of
\* the popped region's parent
Advance_Climbing(popped, r, n) ==
    IF n.panic THEN Finish(popped, "panic", r, << >>)
    ELSE IF n.some THEN Push(popped, n.val)
    ELSE IF r.level = 0 THEN popped
    ELSE Only({IF up.some /\ ~up.panic THEN Push(popped, up.val) ELSE popped :
                 up \in {next(exit(r).val)}})

\* what the head of the loop body does with the popped region r and n = r.next()
Advance(popped, r, n) ==
    IF n.panic THEN Finish(popped, "panic", r, << >>)
    ELSE IF n.some THEN Push(popped, n.val)
    ELSE popped

\* the head of the loop body, shared by the three: pop, then push region.next()
PopAndAdvance(st) ==
    Only({Advance([st EXCEPT !.nodes = Pop(st.nodes)], r, n) :
            r \in {Top(st.nodes)}, n \in {next(Top(st.nodes))}})

Looked(st, r) == [st EXCEPT !.looked = st.looked \cup {r}]

\* The rest of the loop body of MortonRegionIterator::next and of
\* MortonRegionFurtherIterator::next, the same but for the test `descend`:
\* adv is the state after the head, r the popped region, g = map.get(&r),
\* c = r.enter(0).
Visit(adv, r, g, c, descend) ==
    IF adv.state = "panic" THEN adv
    ELSE IF g.panic THEN Finish(Looked(adv, r), "panic", r, << >>)
    ELSE IF g.some
    THEN IF descend
         THEN IF c.panic THEN Finish(Looked(adv, r), "panic", r, << >>)
              ELSE Finish(Push(Looked(adv, r), c.val), "some", r, g.item)
         ELSE Finish(Looked(adv, r), "some", r, g.item)
    ELSE Looked(adv, r)

\* The body of `while let Some(region) = self.nodes.pop()` in
\* MortonRegionIterator::next: one turn of the loop, or the `None` after it when
\* the stack is empty.  A call that has ended is left as it is.
MortonRegionIterator_body(st, lim, m) ==
    IF st.state # "running" THEN st
    ELSE IF st.nodes = << >> THEN Finish(st, "none", default, << >>)
    ELSE Only({Visit(adv, r, g, enter(r, 0), r.level < lim) :
                 adv \in {PopAndAdvance(st)}, r \in {Top(st.nodes)},
                 g \in {MapGet(m, Top(st.nodes))}})

\* impl Iterator for MortonRegionIterator: next, the loop run until it returns
\* (eight turns to a recursion step, which keeps the evaluation shallow)
RECURSIVE MortonRegionIterator_next(_, _, _)
MortonRegionIterator_next(st, lim, m) ==
    IF st.state # "running" THEN st
    ELSE LET t1 == {MortonRegionIterator_body(s, lim, m) : s \in {st}}
             t2 == {MortonRegionIterator_body(s, lim, m) : s \in t1}
             t3 == {MortonRegionIterator_body(s, lim, m) : s \in t2}
             t4 == {MortonRegionIterator_body(s, lim, m) : s \in t3}
             t5 == {MortonRegionIterator_body(s, lim, m) : s \in t4}
             t6 == {MortonRegionIterator_body(s, lim, m) : s \in t5}
             t7 == {MortonRegionIterator_body(s, lim, m) : s \in t6}
             t8 == {MortonRegionIterator_body(s, lim, m) : s \in t7}
         IN  Only({MortonRegionIterator_next(s, lim, m) : s \in t8})

\* the loop body of MortonRegionFurtherIterator::next
MortonRegionFurtherIterator_body(st, f, m) ==
    IF st.state # "running" THEN st
    ELSE IF st.nodes = << >> THEN Finish(st, "none", default, << >>)
    ELSE Only({Visit(adv, r, g, enter(r, 0), Further(f, r)) :
                 adv \in {PopAndAdvance(st)}, r \in {Top(st.nodes)},
                 g \in {MapGet(m, Top(st.nodes))}})

\* impl Iterator for MortonRegionFurtherIterator: next
RECURSIVE MortonRegionFurtherIterator_next(_, _, _)
MortonRegionFurtherIterator_next(st, f, m) ==
    IF st.state # "running" THEN st
    ELSE LET t1 == {MortonRegionFurtherIterator_body(s, f, m) : s \in {st}}
             t2 == {MortonRegionFurtherIterator_body(s, f, m) : s \in t1}
             t3 == {MortonRegionFurtherIterator_body(s, f, m) : s \in t2}
             t4 == {MortonRegionFurtherIterator_body(s, f, m) : s \in t3}
             t5 == {MortonRegionFurtherIterator_body(s, f, m) : s \in t4}
             t6 == {MortonRegionFurtherIterator_body(s, f, m) : s \in t5}
             t7 == {MortonRegionFurtherIterator_body(s, f, m) : s \in t6}
             t8 == {MortonRegionFurtherIterator_body(s, f, m) : s \in t7}
         IN  Only({MortonRegionFurtherIterator_next(s, f, m) : s \in t8})

\* A faulty variant: every present region is yielded, as in MortonRegionFurtherIterator
MortonRegionFurtherLeavesIterator_body_YieldsAll(st, f, m) ==
    MortonRegionFurtherIterator_body(st, f, m)

\* A faulty variant: a region to descend into is passed over with its children
VisitLeaves_SkipsChildren(adv, r, g, c, descend) ==
    IF adv.state = "panic" THEN adv
    ELSE IF g.panic THEN Finish(Looked(adv, r), "panic", r, << >>)
    ELSE IF g.some /\ ~descend THEN Finish(Looked(adv, r), "some", r, g.item)
    ELSE Looked(adv, r)

\* The rest of the loop body of MortonRegionFurtherLeavesIterator::next: a
\* region to descend into is not returned, the loop goes on.
VisitLeaves(adv, r, g, c, descend) ==
    IF adv.state = "panic" THEN adv
    ELSE IF g.panic THEN Finish(Looked(adv, r), "panic", r, << >>)
    ELSE IF g.some
    THEN IF descend
         THEN IF c.panic THEN Finish(Looked(adv, r), "panic", r, << >>)
              ELSE Push(Looked(adv, r), c.val)
         ELSE Finish(Looked(adv, r), "some", r, g.item)
    ELSE Looked(adv, r)

\* the loop body of MortonRegionFurtherLeavesIterator::next
MortonRegionFurtherLeavesIterator_body(st, f, m) ==
    IF st.state # "running" THEN st
    ELSE IF st.nodes = << >> THEN Finish(st, "none", default, << >>)
    ELSE Only({VisitLeaves(adv, r, g, enter(r, 0), Further(f, r)) :
                 adv \in {PopAndAdvance(st)}, r \in {Top(st.nodes)},
                 g \in {MapGet(m, Top(st.nodes))}})

\* impl Iterator for MortonRegionFurtherLeavesIterator: next
RECURSIVE MortonRegionFurtherLeavesIterator_next(_, _, _)
MortonRegionFurtherLeavesIterator_next(st, f, m) ==
    IF st.state # "running" THEN st
    ELSE LET t1 == {MortonRegionFurtherLeavesIterator_body(s, f, m) : s \in {st}}
             t2 == {MortonRegionFurtherLeavesIterator_body(s, f, m) : s \in t1}
             t3 == {MortonRegionFurtherLeavesIterator_body(s, f, m) : s \in t2}
             t4 == {MortonRegionFurtherLeavesIterator_body(s, f, m) : s \in t3}
             t5 == {MortonRegionFurtherLeavesIterator_body(s, f, m) : s \in t4}
             t6 == {MortonRegionFurtherLeavesIterator_body(s, f, m) : s \in t5}
             t7 == {MortonRegionFurtherLeavesIterator_body(s, f, m) : s \in t6}
             t8 == {MortonRegionFurtherLeavesIterator_body(s, f, m) : s \in t7}
         IN  Only({MortonRegionFurtherLeavesIterator_next(s, f, m) : s \in t8})

-----------------------------------------------------------------------------
(* Spec: a populated MortonMap, one iterator constructed over it, and the   *)
(* iterator pulled until it ends.                                           *)

MaxKeys == 3
MaxLimit == 3

\* The address with the given octants, written down bit by bit from the data
\* model (octant i of the path is triplet i-1), not built with enter.
RegionOfPath(p) ==
    Rgn({60 - 3 * (i - 1) + b : i \in 1 .. Len(p), b \in 0 .. 2} \cap
        {k \in BitIdx : \E i \in 1 .. Len(p) :
            /\ k \in {60 - 3 * (i - 1), 61 - 3 * (i - 1), 62 - 3 * (i - 1)}
            /\ (p[i] \div (IF k = 60 - 3 * (i - 1) THEN 1
                           ELSE IF k = 61 - 3 * (i - 1) THEN 2 ELSE 4)) % 2 = 1},
        Len(p))

\* the small maps draw their keys from these addresses
SmallPaths == { << >>, <<0>>, <<3>>, <<4>>, <<3, 0>>, <<3, 3>>, <<3, 5>>, <<3, 3, 5>> }
SmallKeys == {RegionOfPath(p) : p \in SmallPaths}

\* one path down to the finest level, through every octant
DeepPath == [i \in 1 .. NUM_BITS_PER_DIM |-> (3 * i) % 8]
DeepKey(d) == RegionOfPath(SubSeq(DeepPath, 1, d))
DeepChain(d) == {DeepKey(j) : j \in 0 .. d}

\* the deep maps: the chain down to level 20, the chain down to level 21, and
\* the chain down to level 20 with one more key that pre-order reaches after it
KeySets ==
    {ks \in SUBSET SmallKeys : Cardinality(ks) <= MaxKeys}
        \cup {DeepChain(NUM_BITS_PER_DIM - 1), DeepChain(NUM_BITS_PER_DIM),
              DeepChain(NUM_BITS_PER_DIM - 1) \cup {RegionOfPath(<<4>>)}}

\* the payload stored under a key: any value that tells the keys apart
PayloadOf(k) == << "payload", PathOf(k) >>

Limits == (0 .. MaxLimit) \cup {NUM_BITS_PER_DIM - 1, NUM_BITS_PER_DIM}

Roots == {default, RegionOfPath(<<3>>), RegionOfPath(<<3, 3>>), DeepKey(NUM_BITS_PER_DIM)}

\* The predicate is asked about present regions only, so it is given by the set
\* of keys it answers true for.  enter's precondition is level < 21: no predicate
\* asks to descend below the finest level.  Every predicate is tried on a small
\* map, the level thresholds on every map.
Descendable(m) == {k \in DOMAIN m : k.level < NUM_BITS_PER_DIM}
Predicates(m) ==
    {{k \in Descendable(m) : k.level < l} : l \in Limits}
        \cup (IF Cardinality(DOMAIN m) <= MaxKeys THEN SUBSET Descendable(m) ELSE {})

\* Inserting a key hashes it: a build that checks overflow cannot hold a
\* level-21 key (the insert panics).
Insertable(ks) == \A k \in ks : ~hash(k).panic

Init ==
    /\ overflow_checks \in BOOLEAN
    /\ panicked = FALSE
    /\ \E ks \in KeySets :
          /\ Insertable(ks)
          /\ map = [k \in ks |-> PayloadOf(k)]
    /\ kind = "none"
    /\ root = default
    /\ nodes = << >>
    /\ limit = 0
    /\ further = {}
    /\ result = NoResult
    /\ yielded = << >>
    /\ looked = {}
    /\ pushed = {}
    /\ peak = 0
    /\ MortonIdle
    /\ PointIdle
    /\ RegionIdle

\* the part of the three constructors that is the same: nodes = vec![region]
Constructed(k, r) ==
    /\ ~panicked
    /\ kind = "none"
    /\ kind' = k
    /\ root' = r
    /\ nodes' = << r >>
    /\ pushed' = {r}
    /\ peak' = 1
    /\ UNCHANGED << overflow_checks, panicked, map, result, yielded, looked,
                    mortonVars, pointVars, regionVars >>

\* MortonRegionIterator::new(region, limit, map)
NewBounded(r, l) ==
    /\ Constructed("bounded", r)
    /\ limit' = l
    /\ further' = further

\* MortonRegionFurtherIterator::new(region, further, map)
NewFurther(r, f) ==
    /\ Constructed("further", r)
    /\ further' = f
    /\ limit' = limit

\* MortonRegionFurtherLeavesIterator::new(region, further, map)
NewLeaves(r, f) ==
    /\ Constructed("leaves", r)
    /\ further' = f
    /\ limit' = limit

Running == [nodes |-> nodes, looked |-> looked, pushed |-> pushed, peak |-> peak,
            state |-> "running", region |-> default, item |-> << >>]

\* what one call of next leaves behind
Pulled(st) ==
    /\ nodes' = st.nodes
    /\ looked' = st.looked
    /\ pushed' = st.pushed
    /\ peak' = st.peak
    /\ panicked' = (st.state = "panic")
    /\ result' = IF st.state = "some"
                 THEN [state |-> "some", region |-> st.region, item |-> st.item]
                 ELSE IF st.state = "none"
                 THEN [state |-> "none", region |-> default, item |-> << >>]
                 ELSE result
    /\ yielded' = IF st.state = "some"
                  THEN Append(yielded, [region |-> st.region, item |-> st.item])
                  ELSE yielded
    /\ UNCHANGED << overflow_checks, map, kind, root, limit, further,
                    mortonVars, pointVars, regionVars >>

PullBounded ==
    /\ ~panicked
    /\ kind = "bounded"
    /\ \E st \in {MortonRegionIterator_next(Running, limit, map)} : Pulled(st)

PullFurther ==
    /\ ~panicked
    /\ kind = "further"
    /\ \E st \in {MortonRegionFurtherIterator_next(Running, further, map)} : Pulled(st)

PullLeaves ==
    /\ ~panicked
    /\ kind = "leaves"
    /\ \E st \in {MortonRegionFurtherLeavesIterator_next(Running, further, map)} : Pulled(st)

Next ==
    \/ \E r \in Roots, l \in Limits : NewBounded(r, l)
    \/ \E r \in Roots, f \in Predicates(map) : NewFurther(r, f)
    \/ \E r \in Roots, f \in Predicates(map) : NewLeaves(r, f)
    \/ PullBounded
    \/ PullFurther
    \/ PullLeaves

Spec == Init /\ [][Next]_vars

\* The consumer keeps pulling: a `for` loop over the iterator, or repeated calls
\* of next, take the next item whenever the last call has returned.
Pull == PullBounded \/ PullFurther \/ PullLeaves
SpecPulled == Spec /\ WF_vars(Pull)

-----------------------------------------------------------------------------
(* Vocabulary of the properties: addresses read as octant paths.            *)

Min(a, b) == IF a <= b THEN a ELSE b

\* the address a is r or lies within r
InRegion(r, a) == a.level >= r.level /\ AgreeOnFirst(a.morton, r.morton, r.level)
StrictlyWithin(r, a) == a.level > r.level /\ AgreeOnFirst(a.morton, r.morton, r.level)

\* the ancestor of a at level j <= a.level: its first j triplets, the rest zero
Ancestor(a, j) == Rgn(FirstTriplets(a.morton, j), j)

HasPresentChild(m, a) ==
    \E k \in DOMAIN m : k.level = a.level + 1 /\ StrictlyWithin(a, k)

\* pre-order with ascending octant: a node before its descendants, the subtree
\* of a smaller octant before the subtree of a greater one.  The order is
\* strict and transitive, so a sequence is in pre-order, without repetition,
\* when each element is before the next.
PreOrderBefore(p, q) ==
    \/ Len(p) < Len(q) /\ \A j \in 1 .. Len(p) : p[j] = q[j]
    \/ \E i \in 1 .. Min(Len(p), Len(q)) :
          p[i] < q[i] /\ \A j \in 1 .. (i - 1) : p[j] = q[j]

YieldedRegions == [i \in 1 .. Len(yielded) |-> yielded[i].region]
IsPrefixOf(a, b) == Len(a) <= Len(b) /\ \A i \in 1 .. Len(a) : a[i] = b[i]

\* the call of next that found the stack empty has returned None
Ended == kind # "none" /\ result.state = "none"

\* what a bounded walk from r down to level lim is to produce: the keys within
\* r, no deeper than lim, all of whose ancestors down to r are keys too
Reachable(m, r, lim) ==
    {k \in DOMAIN m :
        /\ InRegion(r, k)
        /\ k.level <= lim
        /\ \A j \in r.level .. k.level : Ancestor(k, j) \in DOMAIN m}

\* the map of the end-to-end examples
ExampleA == enter(default, 3).val
ExampleB == enter(enter(ExampleA, 3).val, 5).val
ExampleKeys == {default, ExampleA, ExampleB}
\* the same with B one level up, a child of A
ExampleB2 == enter(ExampleA, 5).val
ExampleKeys2 == {default, ExampleA, ExampleB2}

-----------------------------------------------------------------------------
(* Properties of the iterators, checked under Spec.                         *)

\* C1 as stated: over the map {root, A = root.enter(3), B = A.enter(3).enter(5)}
\* the bounded iterator with limit 2 from the root yields [root, A, B] and ends.
C1_YieldsRootAB ==
    (kind = "bounded" /\ root = default /\ limit = 2 /\ DOMAIN map = ExampleKeys /\ Ended)
        => YieldedRegions = << default, ExampleA, ExampleB >>

\* C1 amended: over that map the bounded iterator with limit 2 from the root
\* yields [root, A] and ends: B is at level 3, below the absent A.enter(3) and
\* below the limit, and is not yielded.  With B = A.enter(5), at level 2, the
\* sequence is [root, A, B].
C1_YieldsRootA ==
    (kind = "bounded" /\ root = default /\ limit = 2)
        => /\ DOMAIN map = ExampleKeys
              => /\ IsPrefixOf(YieldedRegions, << default, ExampleA >>)
                 /\ Ended => YieldedRegions = << default, ExampleA >>
                 /\ ~panicked
           /\ DOMAIN map = ExampleKeys2
              => /\ IsPrefixOf(YieldedRegions, << default, ExampleA, ExampleB2 >>)
                 /\ Ended => YieldedRegions = << default, ExampleA, ExampleB2 >>
                 /\ ~panicked

C1_Witness ==
    /\ kind = "bounded" /\ root = default /\ limit = 2 /\ DOMAIN map = ExampleKeys
    /\ Ended
    /\ YieldedRegions = << default, ExampleA >>

\* C2 as stated: from a root at level 0 the bounded iterator yields exactly the
\* keys no deeper than the limit whose ancestors are all keys, each once, in
\* pre-order with ascending octant.  Stated of a walk that is over: it returned
\* None, or it panicked.
C2_BoundedYieldsReachableInPreOrder ==
    (kind = "bounded" /\ root.level = 0)
        => /\ \A i \in 1 .. (Len(yielded) - 1) :
                PreOrderBefore(PathOf(yielded[i].region), PathOf(yielded[i + 1].region))
           /\ \A i \in 1 .. Len(yielded) :
                /\ yielded[i].region \in Reachable(map, root, limit)
                /\ yielded[i].item = map[yielded[i].region]
           /\ (Ended \/ panicked)
                => {yielded[i].region : i \in 1 .. Len(yielded)} = Reachable(map, root, limit)

\* The same of the walks that return None: what C2 says holds of every walk in
\* which no lookup panics.
BoundedPreOrderUnlessPanic ==
    (kind = "bounded" /\ root.level = 0)
        => /\ \A i \in 1 .. (Len(yielded) - 1) :
                PreOrderBefore(PathOf(yielded[i].region), PathOf(yielded[i + 1].region))
           /\ \A i \in 1 .. Len(yielded) :
                /\ yielded[i].region \in Reachable(map, root, limit)
                /\ yielded[i].item = map[yielded[i].region]
           /\ Ended
                => {yielded[i].region : i \in 1 .. Len(yielded)} = Reachable(map, root, limit)

\* C3 as stated: every address any of the three iterators yields is the root it
\* was constructed with or lies within it.
C3_YieldsOnlyWithinRoot ==
    \A i \in 1 .. Len(yielded) : InRegion(root, yielded[i].region)

\* C4: over the example map the predicate iterator from the root with
\* should_descend(a) = (a.level < 1) yields [root, A]; B is never yielded and
\* stays in the map.
C4_PredicateYieldsRootA ==
    (/\ kind = "further" /\ root = default /\ DOMAIN map = ExampleKeys
     /\ further = {k \in DOMAIN map : k.level < 1})
        => /\ IsPrefixOf(YieldedRegions, << default, ExampleA >>)
           /\ Ended => YieldedRegions = << default, ExampleA >>
           /\ \A i \in 1 .. Len(yielded) : yielded[i].region # ExampleB
           /\ ExampleB \in DOMAIN map
           /\ ~panicked

C4_Witness ==
    /\ kind = "further" /\ root = default /\ DOMAIN map = ExampleKeys
    /\ further = {k \in DOMAIN map : k.level < 1}
    /\ Ended
    /\ YieldedRegions = << default, ExampleA >>
    /\ ExampleB \in DOMAIN map

\* C5: every address the predicate-leaves iterator yields has should_descend
\* false or no present child; an address with should_descend true and a present
\* child is never yielded.
C5_LeavesYieldOnlyLeaves ==
    kind = "leaves"
        => \A i \in 1 .. Len(yielded) :
              /\ ~Further(further, yielded[i].region)
                    \/ ~HasPresentChild(map, yielded[i].region)
              /\ ~(Further(further, yielded[i].region)
                     /\ HasPresentChild(map, yielded[i].region))

\* a leaves walk that passed through a key with should_descend true and a
\* present child, and yielded something below it
C5_Witness ==
    /\ kind = "leaves"
    /\ Ended
    /\ \E a \in looked \cap DOMAIN map :
          /\ Further(further, a)
          /\ HasPresentChild(map, a)
          /\ \E i \in 1 .. Len(yielded) : StrictlyWithin(a, yielded[i].region)

\* C6: sparse pruning, in all three iterators.  An address that was pushed or
\* looked up has no strict ancestor that was popped and found absent (so no
\* child of such an address is pushed), and none at or below the root that is
\* absent from the map.
C6_SparsePruning ==
    kind # "none"
        => \A x \in pushed \cup looked : \A j \in 0 .. (x.level - 1) :
              /\ Ancestor(x, j) \in looked => Ancestor(x, j) \in DOMAIN map
              /\ (j >= root.level /\ InRegion(root, x)) => Ancestor(x, j) \in DOMAIN map

\* a walk that is over, in which an absent address within the root was looked
\* up although a key lies below it
C6_Witness ==
    /\ Ended
    /\ \E a \in looked \ DOMAIN map :
          /\ InRegion(root, a)
          /\ \E k \in DOMAIN map : StrictlyWithin(a, k)

\* C15 as stated: pulled repeatedly, the bounded iterator eventually returns
\* None, whatever the map, the root and the limit in 0..21; None is returned
\* with the stack empty; and every pull after a None returns None.
C15_BoundedEnds ==
    /\ (kind = "bounded") ~> Ended
    /\ [](kind = "bounded" /\ Ended => nodes = << >>)
    /\ [][kind = "bounded" /\ Ended => Ended']_vars

\* The same of the walks in which no lookup panics: every walk returns None or
\* panics, None comes with the stack empty, and None is followed by None.
BoundedEndsUnlessPanic ==
    /\ (kind = "bounded") ~> (Ended \/ panicked)
    /\ [](kind = "bounded" /\ Ended => nodes = << >>)
    /\ [][kind = "bounded" /\ Ended => Ended']_vars

\* C19 as stated: whatever the map, the root and the limit, the stack of the
\* bounded iterator never holds more than limit addresses, so the capacity
\* reserved by new is enough.
C19_StackWithinLimit == kind = "bounded" => peak <= limit

\* The same with room for the root: the stack never holds more than limit
\* addresses, or one where the limit is 0.
StackWithinLimitOrOne == kind = "bounded" => peak <= Max(limit, 1)

\* C20: between pulls, in each of the three iterators, the levels of the
\* addresses on the stack increase strictly from the bottom to the top, so the
\* stack holds at most one address of a level.
C20_StackLevelsIncrease ==
    /\ \A i \in 1 .. (Len(nodes) - 1) : nodes[i].level < nodes[i + 1].level
    /\ \A i, j \in 1 .. Len(nodes) : nodes[i].level = nodes[j].level => i = j

\* a predicate iterator rests between pulls with three addresses on its stack
C20_Witness ==
    /\ kind = "further"
    /\ ~panicked
    /\ Len(nodes) = 3
    /\ yielded # << >>

\* the state of an iterator just constructed from the root r
Fresh(r) == [nodes |-> << r >>, looked |-> {}, pushed |-> {r}, peak |-> 1,
             state |-> "running", region |-> default, item |-> << >>]

\* how many calls of next have returned or panicked so far (calls after a None
\* change nothing and are not counted)
Pulls == Len(yielded) + (IF Ended \/ panicked THEN 1 ELSE 0)

\* n calls of MortonRegionIterator::next from the run a: [st, out, how], the
\* iterator's state, what it has yielded, and how its last call ended
RECURSIVE BoundedReplay(_, _, _, _)
BoundedReplay(a, lim, m, n) ==
    IF n = 0 \/ a.how \in {"none", "panic"} THEN a
    ELSE Only({BoundedReplay([st |-> t,
                              out |-> IF t.state = "some"
                                      THEN Append(a.out, [region |-> t.region, item |-> t.item])
                                      ELSE a.out,
                              how |-> t.state], lim, m, n - 1) :
                 t \in {MortonRegionIterator_next([a.st EXCEPT !.state = "running"], lim, m)}})

\* the bounded iterator with limit l over the map, from the root, pulled as
\* often as the iterator of the state has been
BoundedRun(l) == BoundedReplay([st |-> Fresh(root), out |-> << >>, how |-> "fresh"],
                               l, map, Pulls)

\* should_descend(a) = (a.level < l), as the set of keys it is true for
LevelBelow(l) == {k \in Descendable(map) : k.level < l}

\* C16: the predicate iterator with should_descend(a) = (a.level < limit) yields
\* the (address, payload) pairs of the bounded iterator with that limit over
\* the same map from the same root, pull by pull, and ends where it ends.
C16_PredicateAsBounded ==
    kind = "further"
        => \A l \in Limits :
              further = LevelBelow(l)
                 => /\ BoundedRun(l).out = yielded
                    /\ BoundedRun(l).st.nodes = nodes
                    /\ (BoundedRun(l).how = "none") <=> Ended
                    /\ (BoundedRun(l).how = "panic") <=> panicked

\* a predicate walk with the threshold 2 has ended over a map with a key deeper
\* than level 2, having yielded three regions
C16_Witness ==
    /\ kind = "further" /\ further = LevelBelow(2) /\ Ended
    /\ Len(yielded) >= 3
    /\ \E k \in DOMAIN map : k.level > 2
    /\ BoundedRun(2).out = yielded

\* Calls of MortonRegionFurtherIterator::next from the run a until n regions
\* the predicate f says not to descend into have been yielded, or the walk is
\* over.
RECURSIVE FurtherReplay(_, _, _, _)
FurtherReplay(a, f, m, n) ==
    IF n = 0 \/ a.how \in {"none", "panic"} THEN a
    ELSE Only({FurtherReplay([st |-> t,
                              out |-> IF t.state = "some"
                                      THEN Append(a.out, [region |-> t.region, item |-> t.item])
                                      ELSE a.out,
                              how |-> t.state], f, m,
                             IF t.state = "some" /\ t.region \in f THEN n ELSE n - 1) :
                 t \in {MortonRegionFurtherIterator_next([a.st EXCEPT !.state = "running"], f, m)}})

\* the predicate iterator with the predicate, the map and the root of the
\* state, pulled until it has yielded as many regions not to descend into as
\* the iterator of the state has made calls
FurtherRun == FurtherReplay([st |-> Fresh(root), out |-> << >>, how |-> "fresh"],
                            further, map, Pulls)

\* a sequence of yields without the regions the predicate says to descend into
WithoutDescended(out) ==
    LET Kept(y) == y.region \notin further
    IN  SelectSeq(out, Kept)

\* C17: the predicate-leaves iterator yields what the predicate iterator yields
\* on the same map, root and predicate, without the regions the predicate says
\* to descend into; at each yield the two have looked up and pushed the same
\* regions and hold the same stack, and they end together.
C17_LeavesAsFilteredPredicate ==
    kind = "leaves"
        => /\ WithoutDescended(FurtherRun.out) = yielded
           /\ FurtherRun.st.nodes = nodes
           /\ FurtherRun.st.looked = looked
           /\ FurtherRun.st.pushed = pushed
           /\ (FurtherRun.how = "none") <=> Ended
           /\ (FurtherRun.how = "panic") <=> panicked

\* a leaves walk has ended having yielded two regions, the predicate iterator
\* having yielded more: regions were descended into and left out
C17_Witness ==
    /\ kind = "leaves" /\ Ended
    /\ Len(yielded) >= 2
    /\ Len(FurtherRun.out) > Len(yielded)
    /\ WithoutDescended(FurtherRun.out) = yielded

-----------------------------------------------------------------------------
(* Properties of the address operations, checked under SpecRegion.          *)

\* the zero-beyond-level invariant of an address
ZeroBeyondLevel(r) ==
    /\ r.level \in Levels
    /\ \A i \in TripletIdx : i >= r.level => Triplet(r.morton, i) = 0
    /\ 63 \notin r.morton

\* C7: exit() on r.enter(o), r below level 21 and o an octant, returns o and
\* leaves the address equal to r, code and level.
C7_ExitUndoesEnter ==
    rop.op = "enter"
        => /\ ~panicked
           /\ region.level = rop.pre.level + 1
           /\ ~exit(region).panic
           /\ exit(region).old = rop.arg
           /\ exit(region).val = rop.pre

\* enter(5) has just taken an address from level 20 to level 21
C7_Witness ==
    /\ rop.op = "enter" /\ rop.arg = 5 /\ rop.pre.level = NUM_BITS_PER_DIM - 1
    /\ region.level = NUM_BITS_PER_DIM

\* C8: r.next() of an address r at level L >= 1 whose last octant get() is k:
\* for k < 7 an address at level L with last octant k + 1 and the first L - 1
\* triplets of r; for k = 7 no successor; and no successor at level 0.
C8_NextIsTheNextSibling ==
    rop.op = "next"
        => /\ ~panicked
           /\ rop.pre.level = 0 => ~rop.some
           /\ rop.pre.level >= 1
                => /\ get(rop.pre).val = Triplet(rop.pre.morton, rop.pre.level - 1)
                   /\ get(rop.pre).val = 7 => (~rop.some /\ region = rop.pre)
                   /\ get(rop.pre).val < 7
                        => /\ rop.some
                           /\ region.level = rop.pre.level
                           /\ get(region).val = get(rop.pre).val + 1
                           /\ Triplet(region.morton, region.level - 1)
                                 = Triplet(rop.pre.morton, rop.pre.level - 1) + 1
                           /\ AgreeOnFirst(region.morton, rop.pre.morton, rop.pre.level - 1)

\* next() has just moved a level-21 address to its sibling
C8_Witness ==
    /\ rop.op = "next" /\ rop.some
    /\ rop.pre.level = NUM_BITS_PER_DIM
    /\ region.level = NUM_BITS_PER_DIM
    /\ get(region).val = get(rop.pre).val + 1

\* C9: every address reached from the default root by enter (below level 21,
\* octants 0..7), exit (above level 0) and next has its level in 0..21, zero
\* triplets at and beyond its level, and bit 63 zero.
C9_AddressInvariant == ZeroBeyondLevel(region)

\* exit() has just left a level-21 address whose last octant was 7
C9_Witness ==
    /\ rop.op = "exit" /\ rop.ret = 7
    /\ rop.pre.level = NUM_BITS_PER_DIM
    /\ region.level = NUM_BITS_PER_DIM - 1

\* the address with the octants and the level of r, written down from the data
\* model: what every way of constructing that (prefix, level) should give
Canonical(r) == RegionOfPath(PathOf(r))

\* the address of level j with the code of r cut to its first j triplets: an
\* ancestor of r for j below r's level, r followed by octants 0 for j above it
AtLevel(r, j) == Rgn(FirstTriplets(r.morton, j), j)

\* the addresses of other levels r is compared with: its ancestors, r followed
\* by octants 0, and the addresses of other prefixes the maps are built from
OtherLevels(r) ==
    {o \in {AtLevel(r, j) : j \in Levels} \cup SmallKeys \cup DeepChain(NUM_BITS_PER_DIM) :
        o.level # r.level}

\* C11 as stated: however an address was reached from the root by enter, exit
\* and next, it equals, code and level, the address of its octants and level,
\* and hashing it gives the hash value of that address.
C11_SamePathSameKeyAndHash ==
    rop.op = "hash"
        => /\ rop.pre = Canonical(rop.pre)
           /\ ~panicked
           /\ rop.ret = hash(Canonical(rop.pre)).val

\* The same wherever the hash returns: reached addresses are canonical, and a
\* hash that returns is the hash of the canonical address.
SamePathSameKey ==
    /\ region = Canonical(region)
    /\ (rop.op = "hash" /\ ~panicked) => rop.ret = hash(Canonical(rop.pre)).val

\* C12 as stated: the hash of a reached address differs from the hash of every
\* address of another level in 0..21, its ancestors and itself followed by
\* octants 0 among them.
C12_HashTellsLevelsApart ==
    rop.op = "hash"
        => /\ ~panicked
           /\ \A o \in OtherLevels(rop.pre) :
                /\ ~hash(o).panic
                /\ hash(o).val # rop.ret

\* The same wherever both hashes return (levels 0..20, and level 21 in a build
\* that wraps): the hashes of different levels differ.
HashTellsLevelsApartWhereDefined ==
    (rop.op = "hash" /\ ~panicked)
        => \A o \in OtherLevels(rop.pre) :
                ~hash(o).panic => hash(o).val # rop.ret

\* C13 as stated: hashing an address of any level 0..21 computes the shift
\* amount 3 * (21 - level - 1) without underflow or wrap-around and returns.
C13_HashIsTotal ==
    rop.op = "hash"
        => /\ ~panicked
           /\ ~ShiftOverflows(LevelShift(rop.pre.level))

\* Up to level 20 the shift amount is in range and the hash returns.
HashIsTotalBelowFinest ==
    (rop.op = "hash" /\ rop.pre.level < NUM_BITS_PER_DIM)
        => /\ ~panicked
           /\ ~ShiftOverflows(LevelShift(rop.pre.level))

-----------------------------------------------------------------------------
(* Properties of the code operations, checked under SpecMorton.             *)

\* C14: set_level(i, o) and reset_level(i), i in 0..20 and o in 0..7, change
\* the three bits of triplet i and no other bit of the code, bit 63 included;
\* get_level(i) then returns o, respectively 0.
C14_WritesOneTriplet ==
    /\ mop.op \in {"set_level", "reset_level"}
         => /\ ~panicked
            /\ mop.pre = code0
            /\ SameOutsideTriplet(code, mop.pre, mop.level)
            /\ Triplet(code, mop.level) = mop.val
            /\ get_level(code, mop.level) = [panic |-> FALSE, val |-> mop.val]
    /\ mop.op = "get_level"
         => /\ ~panicked
            /\ mop.pre = code
            /\ mop.ret = Triplet(code, mop.level)

\* set_level(20, 5) has overwritten the last triplet of the all-ones code
C14_Witness ==
    /\ mop.op = "set_level" /\ mop.level = NUM_BITS_PER_DIM - 1 /\ mop.val = 5
    /\ code0 = AllOnes
    /\ Triplet(code, NUM_BITS_PER_DIM - 1) = 5
    /\ 63 \in code

\* the distance of two numerators
Dist(a, b) == IF a >= b THEN a - b ELSE b - a

\* C18: a point with coordinates in [0,1), encoded and decoded, comes back as
\* the centre of the finest cell that holds it, each coordinate at most half a
\* cell width (a cell is 2^-21 wide) from where it was.
C18_RoundTripToCellCentre ==
    pstep = "decoded"
        => /\ 63 \notin encoded
           /\ \A a \in {"x", "y", "z"} :
                /\ point[a] \in 0 .. (One - 1)
                /\ centre[a] = (point[a] \div 2 ^ CellBits) * 2 ^ CellBits + 2 ^ (CellBits - 1)
                /\ 2 * Dist(centre[a], point[a]) <= 2 ^ CellBits

\* a round trip is made whose x is the last value below 1, whose y is 0 (and
\* comes back half a cell away) and whose z is one half
C18_Witness ==
    /\ pstep = "decoded"
    /\ point = [x |-> One - 1, y |-> 0, z |-> One \div 2]
    /\ 2 * Dist(centre.y, point.y) = 2 ^ CellBits
    /\ centre.z = One \div 2 + 2 ^ (CellBits - 1)

\* C10 as stated: get_significant_bits(L) depends on the first L triplets only:
\* it gives the same value for the code at hand and for every code that agrees
\* with it on triplets 0 .. L-1 (the code the run started from, the seeds),
\* whenever the call returns.
C10_SignificantBitsOfFirstTripletsOnly ==
    (mop.op = "get_significant_bits" /\ ~panicked)
        => \A c \in SeedCodes \cup {code0} :
                AgreeOnFirst(code, c, mop.level)
                    => get_significant_bits(c, mop.level).val = mop.bits

\* What the code does: below level 21, get_significant_bits(L) is the same for
\* codes that agree on bit 63 and on triplets 0 .. L, one triplet more.
SignificantBitsOfOneTripletMore ==
    (mop.op = "get_significant_bits" /\ mop.level < NUM_BITS_PER_DIM)
        => /\ ~panicked
           /\ \A c \in SeedCodes \cup {code0} :
                (AgreeOnFirst(code, c, mop.level + 1) /\ (63 \in code <=> 63 \in c))
                    => get_significant_bits(c, mop.level).val = mop.bits

====
